---- MODULE Spec2Model ----
(***************************************************************************)
(* Ann_Graph_Handler.py: an annotated graph (vertices and directed edges,   *)
(* each with one attribute and one rule text) and the agent function that   *)
(* fills the attributes by repeated passes until a pass changes nothing.    *)
(*                                                                          *)
(* The model follows main(): read_input_file builds the graph (add_vertex,  *)
(* add_edge, then the rule texts), AgentFunction.execute evaluates it one   *)
(* loop iteration per step, write_output_file renders the attributes.       *)
(*                                                                          *)
(* Representation.  An Optional value is a sequence of length at most one:  *)
(* None is << >> and a value x is << x >>.  A rule text is the sequence of  *)
(* its whitespace-separated tokens (what str.split() returns); float() and  *)
(* int() are modelled on tokens.  Attribute values are the integers the     *)
(* numeric tokens denote (Python holds them as floats; min and * agree on   *)
(* them).  An Edge reference held in in_edges/out_edges is the position of  *)
(* that Edge object in graph.edges.                                         *)
(***************************************************************************)
EXTENDS Integers, Sequences, FiniteSets, TLC

VARIABLES
    vertices,    \* graph.vertices: sequence of Vertex records
    edges,       \* graph.edges: sequence of Edge records
    vertex_map,  \* graph.vertex_map: function id -> position in vertices
    nv, ne,      \* the header counts read by read_input_file
    pc,          \* where main() is
    i,           \* index of the running for loop
    changed,     \* execute's flag
    rounds,      \* iterations of execute's while loop begun so far (history)
    exc,         \* the exception that ended main(), "none" when none
    output,      \* the lines written by write_output_file
    runs,        \* calls of execute entered so far (history)
    set_in       \* entity -> the round of its call in which its attr was set (history)

vars == <<vertices, edges, vertex_map, nv, ne, pc, i, changed, rounds, exc, output,
         runs, set_in>>

\* Bound on the graphs explored: nv + ne <= MaxN.
MaxN == 3

\* Calls of execute on one graph.
MaxRuns == 2

\* The ghost counter rounds stops counting here (far above what execute reaches).
RoundCap == 8

None == << >>
Some(x) == << x >>

----------------------------------------------------------------------------
\* Tokens and the conversions float() and int()

\* The integers whose decimal numerals occur as tokens.
Numerals == -1 .. 9

IsNumeral(tok) == \E k \in Numerals : ToString(k) = tok

\* int(tok) / float(tok) of a numeral token.
NumeralValue(tok) == CHOOSE k \in Numerals : ToString(k) = tok

\* str(x) of a float holding an integer value: "3.0".
FloatStr(x) == ToString(x) \o ".0"

\* The tagged results of _parse_rule.
PFloat(x) == [kind |-> "float", name |-> "", num |-> x, exc |-> "none"]
PName(s) == [kind |-> "str", name |-> s, num |-> 0, exc |-> "none"]
PTuple(s, k) == [kind |-> "tuple", name |-> s, num |-> k, exc |-> "none"]
PRaise(e) == [kind |-> "raise", name |-> "", num |-> 0, exc |-> e]

\* ParseRule without the conversion of the 1-based index: int(parts[1]).
ParseRuleNoShift(text) ==
    IF Len(text) = 1 /\ IsNumeral(text[1]) THEN PFloat(NumeralValue(text[1]))
    ELSE IF Len(text) = 1 THEN PName(text[1])
    ELSE IF Len(text) = 0 THEN PRaise("IndexError")
    ELSE IF IsNumeral(text[2]) THEN PTuple(text[1], NumeralValue(text[2]))
    ELSE PRaise("ValueError")

\* AgentFunction._parse_rule on the token sequence of the rule text.
\* float(rule) succeeds exactly on a text that is one numeral; otherwise
\* parts = rule.split(): one part is returned as is, no part makes parts[0]
\* raise IndexError, and with two or more parts int(parts[1]) may raise
\* ValueError; parts beyond the second are never looked at.
ParseRule(text) ==
    IF Len(text) = 1 /\ IsNumeral(text[1]) THEN PFloat(NumeralValue(text[1]))
    ELSE IF Len(text) = 1 THEN PName(text[1])
    ELSE IF Len(text) = 0 THEN PRaise("IndexError")
    ELSE IF IsNumeral(text[2]) THEN PTuple(text[1], NumeralValue(text[2]) - 1)
    ELSE PRaise("ValueError")

----------------------------------------------------------------------------
\* Graph model

\* Vertex.__init__
Vertex(id) ==
    [id |-> id, attr |-> None, rule |-> None, in_edges |-> << >>, out_edges |-> << >>]

\* Edge.__init__
Edge(id, source, target) ==
    [id |-> id, source |-> source, target |-> target, attr |-> None, rule |-> None]

\* AnnotatedGraph.__init__
Init ==
    /\ vertices = << >>
    /\ edges = << >>
    /\ vertex_map = << >>
    /\ nv = 0
    /\ ne = 0
    /\ pc = "header"
    /\ i = 0
    /\ changed = FALSE
    /\ rounds = 0
    /\ exc = "none"
    /\ output = << >>
    /\ runs = 0
    /\ set_in = << >>

----------------------------------------------------------------------------
\* The inputs main() is run on.  strict = TRUE draws only well-formed files
\* (endpoints in 1..nv, rules of the grammar with references in range);
\* strict = FALSE also draws the malformed ones.

ConstTexts == {<<"3">>, <<"7">>}

CopyTexts(tag, ks) == {<<tag, ToString(k)>> : k \in ks}

MalformedTexts == {<<"foo", "3">>, <<"v", "x">>, <<"v", "1", "2">>, << >>}

VertexRuleInputs(strict) ==
    IF strict
    THEN ConstTexts \cup CopyTexts("v", 1 .. nv) \cup CopyTexts("e", 1 .. ne) \cup {<<"min">>}
    ELSE ConstTexts \cup CopyTexts("v", 0 .. MaxN) \cup CopyTexts("e", 0 .. MaxN)
             \cup {<<"min">>, <<"*">>} \cup MalformedTexts

EdgeRuleInputs(strict) ==
    IF strict
    THEN ConstTexts \cup CopyTexts("v", 1 .. nv) \cup CopyTexts("e", 1 .. ne) \cup {<<"*">>}
    ELSE ConstTexts \cup CopyTexts("v", 0 .. MaxN) \cup CopyTexts("e", 0 .. MaxN)
             \cup {<<"min">>, <<"*">>} \cup MalformedTexts

EndpointInputs(strict) == IF strict THEN 1 .. nv ELSE 1 .. nv + 1

\* The header counts: graphs of at most MaxN entities, edges only among vertices.
HeaderInputs ==
    {h \in (0 .. MaxN) \X (0 .. MaxN) : h[1] + h[2] <= MaxN /\ (h[1] = 0 => h[2] = 0)}

\* A wider family of well-formed files: the ones above, and the graphs of
\* MaxN + 1 entities whose rules are constants and keywords only.
WideHeaderInputs ==
    {h \in (0 .. MaxN + 1) \X (0 .. MaxN + 1) :
        h[1] + h[2] <= MaxN + 1 /\ (h[1] = 0 => h[2] = 0)}

WideVertexRuleInputs ==
    IF nv + ne <= MaxN THEN VertexRuleInputs(TRUE) ELSE ConstTexts \cup {<<"min">>}

WideEdgeRuleInputs ==
    IF nv + ne <= MaxN THEN EdgeRuleInputs(TRUE) ELSE ConstTexts \cup {<<"*">>}

----------------------------------------------------------------------------
\* read_input_file

\* The four loops of read_input_file, in order, and their iteration counts.
Phases == <<"add_vertices", "add_edges", "vertex_rules", "edge_rules">>

PhaseCount(k, a, b) == IF k \in {1, 3} THEN a ELSE b

RECURSIVE FirstPhase(_, _, _)
\* The first loop from the k-th on that has an iteration to run; "loaded"
\* (read_input_file returns) when there is none.
FirstPhase(k, a, b) ==
    IF k > Len(Phases) THEN "loaded"
    ELSE IF PhaseCount(k, a, b) > 0 THEN Phases[k]
    ELSE FirstPhase(k + 1, a, b)

\* Where read_input_file is once the k-th loop has run j iterations.
LoadPc(k, j, a, b) == IF j < PhaseCount(k, a, b) THEN Phases[k] ELSE FirstPhase(k + 1, a, b)

LoadIdx(k, j, a, b) == IF j < PhaseCount(k, a, b) THEN j ELSE 0

\* AnnotatedGraph.add_vertex: append, and map the id to the appended object.
AddVertexList(vs, v) == Append(vs, v)

AddVertexMap(vs, vmap, v) ==
    [k \in DOMAIN vmap \cup {v.id} |-> IF k = v.id THEN Len(vs) + 1 ELSE vmap[k]]

\* WireEdge with the second if of add_edge as an elif: the edge is entered
\* in the target's in_edges only when the source is not in the map.
WireEdgeElif(vs, vmap, e, p) ==
    [q \in DOMAIN vs |->
        [vs[q] EXCEPT
            !.out_edges = IF e.source \in DOMAIN vmap /\ vmap[e.source] = q
                          THEN Append(@, p) ELSE @,
            !.in_edges = IF e.source \notin DOMAIN vmap
                            /\ e.target \in DOMAIN vmap /\ vmap[e.target] = q
                         THEN Append(@, p) ELSE @]]

\* Vertex.add_out_edge / Vertex.add_in_edge of the edge at position p of
\* graph.edges, on the vertices the map holds for the edge's endpoints.
WireEdge(vs, vmap, e, p) ==
    [q \in DOMAIN vs |->
        [vs[q] EXCEPT
            !.out_edges = IF e.source \in DOMAIN vmap /\ vmap[e.source] = q
                          THEN Append(@, p) ELSE @,
            !.in_edges = IF e.target \in DOMAIN vmap /\ vmap[e.target] = q
                         THEN Append(@, p) ELSE @]]

\* line 212: nv, ne = map(int, f.readline().split())
ReadHeaderFrom(H) ==
    /\ pc = "header"
    /\ \E h \in H :
        /\ nv' = h[1]
        /\ ne' = h[2]
        /\ pc' = FirstPhase(1, h[1], h[2])
    /\ i' = 0
    /\ UNCHANGED <<vertices, edges, vertex_map, changed, rounds, exc, output, runs, set_in>>

ReadHeader == ReadHeaderFrom(HeaderInputs)

\* lines 216-217: graph.add_vertex(Vertex(i))
AddVertex ==
    /\ pc = "add_vertices"
    /\ vertices' = AddVertexList(vertices, Vertex(i))
    /\ vertex_map' = AddVertexMap(vertices, vertex_map, Vertex(i))
    /\ pc' = LoadPc(1, i + 1, nv, ne)
    /\ i' = LoadIdx(1, i + 1, nv, ne)
    /\ UNCHANGED <<edges, nv, ne, changed, rounds, exc, output, runs, set_in>>

\* lines 220-223: graph.add_edge(Edge(i, src - 1, tgt - 1))
AddEdge(strict) ==
    /\ pc = "add_edges"
    /\ \E src \in EndpointInputs(strict), tgt \in EndpointInputs(strict) :
        /\ edges' = Append(edges, Edge(i, src - 1, tgt - 1))
        /\ vertices' = WireEdge(vertices, vertex_map, Edge(i, src - 1, tgt - 1), Len(edges) + 1)
    /\ pc' = LoadPc(2, i + 1, nv, ne)
    /\ i' = LoadIdx(2, i + 1, nv, ne)
    /\ UNCHANGED <<vertex_map, nv, ne, changed, rounds, exc, output, runs, set_in>>

\* lines 228-230: graph.vertices[i].rule = rule
ReadVertexRuleFrom(T) ==
    /\ pc = "vertex_rules"
    /\ \E rule \in T :
        vertices' = [vertices EXCEPT ![i + 1].rule = Some(rule)]
    /\ pc' = LoadPc(3, i + 1, nv, ne)
    /\ i' = LoadIdx(3, i + 1, nv, ne)
    /\ UNCHANGED <<edges, vertex_map, nv, ne, changed, rounds, exc, output, runs, set_in>>

ReadVertexRule(strict) == ReadVertexRuleFrom(VertexRuleInputs(strict))

\* lines 233-235: graph.edges[i].rule = rule
ReadEdgeRuleFrom(T) ==
    /\ pc = "edge_rules"
    /\ \E rule \in T :
        edges' = [edges EXCEPT ![i + 1].rule = Some(rule)]
    /\ pc' = LoadPc(4, i + 1, nv, ne)
    /\ i' = LoadIdx(4, i + 1, nv, ne)
    /\ UNCHANGED <<vertices, vertex_map, nv, ne, changed, rounds, exc, output, runs, set_in>>

ReadEdgeRule(strict) == ReadEdgeRuleFrom(EdgeRuleInputs(strict))

----------------------------------------------------------------------------
\* AgentFunction

\* What a call of _compute_vertex_attr / _compute_edge_attr leaves behind:
\* the exception it raised ("none" when it returned) and the entity list.
Returned(list) == [exc |-> "none", list |-> list]
Raised(e, list) == [exc |-> e, list |-> list]

\* AnnotatedGraph.get_vertex: the position of vertex_map[id], 0 for KeyError.
GetVertex(vmap, id) == IF id \in DOMAIN vmap THEN vmap[id] ELSE 0

\* self.graph.edges[k] on a list of n edges: the position indexed (Python
\* counts a negative k from the end), 0 for IndexError.
EdgeAt(n, k) ==
    IF 0 <= k /\ k < n THEN k + 1
    ELSE IF 0 - n <= k /\ k < 0 THEN n + k + 1
    ELSE 0

\* all(e.attr is not None for e in in_edges)
AllSet(es, ins) == \A q \in DOMAIN ins : es[ins[q]].attr # None

\* MinAttr with max for min.
MaxAttr(es, ins) ==
    CHOOSE m \in {es[ins[q]].attr[1] : q \in DOMAIN ins} :
        \A q \in DOMAIN ins : m >= es[ins[q]].attr[1]

\* min(e.attr for e in in_edges), in_edges not empty
MinAttr(es, ins) ==
    CHOOSE m \in {es[ins[q]].attr[1] : q \in DOMAIN ins} :
        \A q \in DOMAIN ins : m <= es[ins[q]].attr[1]

RECURSIVE ProductAttrSum(_, _)
\* ProductAttr with product += e.attr for product *= e.attr.
ProductAttrSum(es, ins) ==
    IF ins = << >> THEN 1
    ELSE ProductAttrSum(es, SubSeq(ins, 1, Len(ins) - 1)) + es[ins[Len(ins)]].attr[1]

RECURSIVE ProductAttr(_, _)
\* product = 1.0; for e in in_edges: product *= e.attr
ProductAttr(es, ins) ==
    IF ins = << >> THEN 1
    ELSE ProductAttr(es, SubSeq(ins, 1, Len(ins) - 1)) * es[ins[Len(ins)]].attr[1]

\* SetAttr through an index one too low (clamped at the first entity): the
\* assignment lands on the entity before the evaluated one.
SetAttrOffByOne(list, p, x) == [list EXCEPT ![IF p > 1 THEN p - 1 ELSE p].attr = x]

\* SetAttr that also clears the rule of the entity it sets.
SetAttrDropRule(list, p, x) == [list EXCEPT ![p].attr = x, ![p].rule = None]

\* The assignments vertex.attr = x / edge.attr = x (lines 137-154, 161-182),
\* on the entity at position p of its list.
SetAttr(list, p, x) == [list EXCEPT ![p].attr = x]

\* AgentFunction._compute_vertex_attr on the vertex at position p.
ComputeVertexAttr(vs, es, vmap, p) ==
    LET rule == ParseRule(vs[p].rule[1])
        set(x) == Returned(SetAttr(vs, p, x))
    IN  IF rule.kind = "raise" THEN Raised(rule.exc, vs)
        ELSE IF rule.kind = "float" THEN set(Some(rule.num))
        ELSE IF rule.kind = "tuple" /\ rule.name = "v" THEN
            IF GetVertex(vmap, rule.num) = 0 THEN Raised("KeyError", vs)
            ELSE IF vs[GetVertex(vmap, rule.num)].attr # None
                 THEN set(vs[GetVertex(vmap, rule.num)].attr)
                 ELSE Returned(vs)
        ELSE IF rule.kind = "tuple" /\ rule.name = "e" THEN
            IF EdgeAt(Len(es), rule.num) = 0 THEN Raised("IndexError", vs)
            ELSE IF es[EdgeAt(Len(es), rule.num)].attr # None
                 THEN set(es[EdgeAt(Len(es), rule.num)].attr)
                 ELSE Returned(vs)
        ELSE IF rule.kind = "str" /\ rule.name = "min" THEN
            IF AllSet(es, vs[p].in_edges)
            THEN IF vs[p].in_edges = << >> THEN Raised("ValueError", vs)
                 ELSE set(Some(MinAttr(es, vs[p].in_edges)))
            ELSE Returned(vs)
        ELSE Returned(vs)

\* AgentFunction._compute_edge_attr on the edge at position p.
ComputeEdgeAttr(vs, es, vmap, p) ==
    LET rule == ParseRule(es[p].rule[1])
        set(x) == Returned(SetAttr(es, p, x))
    IN  IF rule.kind = "raise" THEN Raised(rule.exc, es)
        ELSE IF rule.kind = "float" THEN set(Some(rule.num))
        ELSE IF rule.kind = "tuple" /\ rule.name = "v" THEN
            IF GetVertex(vmap, rule.num) = 0 THEN Raised("KeyError", es)
            ELSE IF vs[GetVertex(vmap, rule.num)].attr # None
                 THEN set(vs[GetVertex(vmap, rule.num)].attr)
                 ELSE Returned(es)
        ELSE IF rule.kind = "tuple" /\ rule.name = "e" THEN
            IF EdgeAt(Len(es), rule.num) = 0 THEN Raised("IndexError", es)
            ELSE IF es[EdgeAt(Len(es), rule.num)].attr # None
                 THEN set(es[EdgeAt(Len(es), rule.num)].attr)
                 ELSE Returned(es)
        ELSE IF rule.kind = "str" /\ rule.name = "*" THEN
            IF GetVertex(vmap, es[p].source) = 0 THEN Raised("KeyError", es)
            ELSE LET src_vertex == vs[GetVertex(vmap, es[p].source)]
                 IN  IF src_vertex.attr # None /\ AllSet(es, src_vertex.in_edges)
                     THEN set(Some(src_vertex.attr[1] * ProductAttr(es, src_vertex.in_edges)))
                     ELSE Returned(es)
        ELSE Returned(es)

\* lines 194 and 201: only an entity whose attr is None is evaluated.
Unset(attr) == attr = None

\* Differs with changed = True outside the if: set whenever an entity is evaluated.
DiffersAlways(attr, prev) == TRUE

\* Differs with changed never set.
DiffersNever(attr, prev) == FALSE

\* lines 197 and 204: attr != prev, prev being the None read before the call.
Differs(attr, prev) == attr # prev

\* The vertex loop taken from the last vertex down.
NthVertexReversed(j) == Len(vertices) - j

\* for vertex in self.graph.vertices: the position visited by iteration j
\* (counted from 0) is the list order, ascending id.
NthVertex(j) == j + 1

\* for edge in self.graph.edges: the position visited by iteration j.
NthEdge(j) == j + 1

\* The history set_in after a step that took the list old of kind to new in
\* round r: every entity whose attr went from None to a value is stamped r.
Stamp(f, kind, old, new, r) ==
    LET fresh == {<<kind, q>> : q \in {q \in DOMAIN old : old[q].attr = None /\ new[q].attr # None}}
    IN  [x \in DOMAIN f \cup fresh |-> IF x \in DOMAIN f THEN f[x] ELSE r]

\* Where execute is once the vertex loop has run j iterations.
AfterVertex(j) ==
    IF j < Len(vertices) THEN <<"vertex_pass", j>>
    ELSE IF Len(edges) > 0 THEN <<"edge_pass", 0>>
    ELSE <<"while", 0>>

\* Where execute is once the edge loop has run j iterations.
AfterEdge(j) == IF j < Len(edges) THEN <<"edge_pass", j>> ELSE <<"while", 0>>

\* main(), lines 263-264 and 190: agent.execute() is entered, changed = True.
Execute ==
    /\ pc = "loaded"
    /\ changed' = TRUE
    /\ pc' = "while"
    /\ runs' = runs + 1
    /\ UNCHANGED <<vertices, edges, vertex_map, nv, ne, i, rounds, exc, output, set_in>>

\* lines 191-192: the while test holds, changed = False, a round begins.
BeginRound ==
    /\ pc = "while"
    /\ changed
    /\ changed' = FALSE
    /\ rounds' = IF rounds < RoundCap THEN rounds + 1 ELSE rounds
    /\ pc' = AfterVertex(0)[1]
    /\ i' = 0
    /\ UNCHANGED <<vertices, edges, vertex_map, nv, ne, exc, output, runs, set_in>>

\* lines 193-198: one iteration of the vertex loop.
VertexStep ==
    /\ pc = "vertex_pass"
    /\ LET p == NthVertex(i)
           r == ComputeVertexAttr(vertices, edges, vertex_map, p)
       IN  IF ~Unset(vertices[p].attr)
           THEN /\ pc' = AfterVertex(i + 1)[1]
                /\ i' = AfterVertex(i + 1)[2]
                /\ UNCHANGED <<vertices, changed, exc>>
           ELSE IF r.exc # "none"
           THEN /\ pc' = "raised"
                /\ exc' = r.exc
                /\ vertices' = r.list
                /\ UNCHANGED <<i, changed>>
           ELSE /\ vertices' = r.list
                /\ changed' = (changed \/ Differs(r.list[p].attr, vertices[p].attr))
                /\ pc' = AfterVertex(i + 1)[1]
                /\ i' = AfterVertex(i + 1)[2]
                /\ UNCHANGED exc
    /\ set_in' = Stamp(set_in, "v", vertices, vertices', rounds)
    /\ UNCHANGED <<edges, vertex_map, nv, ne, rounds, output, runs>>

\* lines 200-205: one iteration of the edge loop.
EdgeStep ==
    /\ pc = "edge_pass"
    /\ LET p == NthEdge(i)
           r == ComputeEdgeAttr(vertices, edges, vertex_map, p)
       IN  IF ~Unset(edges[p].attr)
           THEN /\ pc' = AfterEdge(i + 1)[1]
                /\ i' = AfterEdge(i + 1)[2]
                /\ UNCHANGED <<edges, changed, exc>>
           ELSE IF r.exc # "none"
           THEN /\ pc' = "raised"
                /\ exc' = r.exc
                /\ edges' = r.list
                /\ UNCHANGED <<i, changed>>
           ELSE /\ edges' = r.list
                /\ changed' = (changed \/ Differs(r.list[p].attr, edges[p].attr))
                /\ pc' = AfterEdge(i + 1)[1]
                /\ i' = AfterEdge(i + 1)[2]
                /\ UNCHANGED exc
    /\ set_in' = Stamp(set_in, "e", edges, edges', rounds)
    /\ UNCHANGED <<vertices, vertex_map, nv, ne, rounds, output, runs>>

\* line 191: the while test fails, execute returns.
ExecuteReturn ==
    /\ pc = "while"
    /\ ~changed
    /\ pc' = "returned"
    /\ UNCHANGED <<vertices, edges, vertex_map, nv, ne, i, changed, rounds, exc, output, runs, set_in>>

\* agent.execute() called once more on the graph it returned from.
ExecuteAgain ==
    /\ pc = "returned"
    /\ runs < MaxRuns
    /\ changed' = TRUE
    /\ rounds' = 0
    /\ pc' = "while"
    /\ runs' = runs + 1
    /\ UNCHANGED <<vertices, edges, vertex_map, nv, ne, i, exc, output, set_in>>

\* f"{attr}\n" without the newline: str(None) or str of the float.
Render(attr) == IF attr = None THEN "None" ELSE FloatStr(attr[1])

\* write_output_file: the vertex attrs, then the edge attrs.
WriteOutput ==
    /\ pc = "returned"
    /\ output' = [q \in 1 .. Len(vertices) |-> Render(vertices[q].attr)]
                     \o [q \in 1 .. Len(edges) |-> Render(edges[q].attr)]
    /\ pc' = "written"
    /\ UNCHANGED <<vertices, edges, vertex_map, nv, ne, i, changed, rounds, exc, runs, set_in>>

\* main() on a file drawn by strict.
Main(strict) ==
    \/ ReadHeader
    \/ AddVertex
    \/ AddEdge(strict)
    \/ ReadVertexRule(strict)
    \/ ReadEdgeRule(strict)
    \/ Execute
    \/ BeginRound
    \/ VertexStep
    \/ EdgeStep
    \/ ExecuteReturn
    \/ WriteOutput

\* Every input file of the bounded alphabet.
Next == Main(FALSE)

\* Well-formed input files only.
NextValid == Main(TRUE)

\* The wider family of well-formed input files.
NextWide ==
    \/ ReadHeaderFrom(WideHeaderInputs)
    \/ AddVertex
    \/ AddEdge(TRUE)
    \/ ReadVertexRuleFrom(WideVertexRuleInputs)
    \/ ReadEdgeRuleFrom(WideEdgeRuleInputs)
    \/ Execute
    \/ BeginRound
    \/ VertexStep
    \/ EdgeStep
    \/ ExecuteReturn
    \/ WriteOutput

\* Well-formed input files, execute called again after it returned.
NextRerun == NextValid \/ ExecuteAgain

Spec == Init /\ [][Next]_vars

SpecWide == Init /\ [][NextWide]_vars

SpecRerun == Init /\ [][NextRerun]_vars

SpecValid == Init /\ [][NextValid]_vars

\* SpecValid with the loop of main() never stopping while a step is possible:
\* main() is one sequential call chain that runs to its end.
FairSpecValid == SpecValid /\ WF_vars(NextValid)

----------------------------------------------------------------------------
\* Vocabulary of the properties

NV == Len(vertices)
NE == Len(edges)

\* read_input_file has returned: every rule text is in place.
Loaded == pc \notin {"header", "add_vertices", "add_edges", "vertex_rules", "edge_rules"}

\* execute has stopped, by returning or by raising.
Stopped == pc \in {"returned", "written", "raised"}

AllAttrsSet ==
    /\ \A p \in DOMAIN vertices : vertices[p].attr # None
    /\ \A p \in DOMAIN edges : edges[p].attr # None

\* The entities: <<"v", p>> and <<"e", p>>, p the position in its list.
Entities == ({"v"} \X DOMAIN vertices) \cup ({"e"} \X DOMAIN edges)

AttrOf(x) == IF x[1] = "v" THEN vertices[x[2]].attr ELSE edges[x[2]].attr

\* The rule text of an entity (<< >> while it is not read yet).
TextOf(x) ==
    LET r == IF x[1] = "v" THEN vertices[x[2]].rule ELSE edges[x[2]].rule
    IN  IF r = None THEN << >> ELSE r[1]

\* The edges that come into the vertex at position p, by the edges' targets.
Incoming(p) == {q \in DOMAIN edges : edges[q].target = vertices[p].id}

\* The vertices (positions) with a given id.
WithId(id) == {p \in DOMAIN vertices : vertices[p].id = id}

\* The grammar of the rule texts.
IsConstText(t) == Len(t) = 1 /\ IsNumeral(t[1])
IsCopyText(t) == Len(t) = 2 /\ t[1] \in {"v", "e"} /\ IsNumeral(t[2])
IsKeywordText(t) == t = <<"min">> \/ t = <<"*">>
HasGrammarShape(t) == IsConstText(t) \/ IsCopyText(t) \/ IsKeywordText(t)

\* A copy rule whose 1-based index names no vertex / no edge.
IsDanglingCopy(t) ==
    /\ IsCopyText(t)
    /\ \/ t[1] = "v" /\ NumeralValue(t[2]) \notin 1 .. NV
       \/ t[1] = "e" /\ NumeralValue(t[2]) \notin 1 .. NE

\* A keyword rule on the wrong kind of entity.
IsWrongKind(x) ==
    \/ x[1] = "v" /\ TextOf(x) = <<"*">>
    \/ x[1] = "e" /\ TextOf(x) = <<"min">>

\* The entities whose attrs the rule of x reads.
DependsOn(x) ==
    LET t == TextOf(x)
    IN  IF IsCopyText(t) THEN {<<t[1], NumeralValue(t[2])>>} \cap Entities
        ELSE IF x[1] = "v" /\ t = <<"min">> THEN {"e"} \X Incoming(x[2])
        ELSE IF x[1] = "e" /\ t = <<"*">> THEN
            ({"v"} \X WithId(edges[x[2]].source))
                \cup ({"e"} \X UNION {Incoming(p) : p \in WithId(edges[x[2]].source)})
        ELSE {}

RECURSIVE Reaches(_, _)
\* What the entities of S depend on, directly or in up to n further steps.
Reaches(S, n) ==
    LET D == UNION {DependsOn(x) : x \in S}
    IN  IF n = 0 THEN D ELSE D \cup Reaches(D, n - 1)

\* x depends on itself through some chain of rules.
OnCycle(x) == x \in Reaches({x}, NV + NE)

\* x depends, directly or not, on an entity that is on a cycle.
Blocked(x) == OnCycle(x) \/ \E y \in Reaches({x}, NV + NE) : OnCycle(y)

Acyclic == \A x \in Entities : ~OnCycle(x)

----------------------------------------------------------------------------
\* C1: write-once attributes.  In every step of main(), a vertex or edge
\* whose attr is set keeps exactly that attr: no later iteration of the same
\* round or of a later round changes it.
C1_WriteOnce ==
    [][/\ \A p \in DOMAIN vertices :
            vertices[p].attr # None => vertices'[p].attr = vertices[p].attr
       /\ \A p \in DOMAIN edges :
            edges[p].attr # None => edges'[p].attr = edges[p].attr]_vars

\* execute has run three rounds over a graph with a set vertex and a set edge.
C1_Witness ==
    /\ pc = "returned"
    /\ rounds >= 3
    /\ \E p \in DOMAIN vertices : vertices[p].attr # None
    /\ \E p \in DOMAIN edges : edges[p].attr # None

\* C2: on a well-formed graph execute stops (main() runs on without
\* stopping midway), and it never begins more than NV + NE + 1 rounds,
\* cyclic rules included.
C2_BoundedRounds == [](rounds <= NV + NE + 1) /\ <>Stopped

\* execute returned having used all NV + NE + 1 rounds.
C2_Witness ==
    /\ pc = "returned"
    /\ NV + NE >= 2
    /\ rounds = NV + NE + 1

C4_NonConvergenceReported ==
    (pc = "written" /\ \E x \in Entities : OnCycle(x)) =>
        /\ \A x \in Entities : OnCycle(x) => AttrOf(x) = None
        /\ exc = "NonConvergence"

\* C5: a graph holding a rule text of no grammar shape is refused at load
\* time: none of its attrs is ever written and no output is produced.
C5_ShapelessRuleRefused ==
    (Loaded /\ \E x \in Entities : ~HasGrammarShape(TextOf(x))) =>
        /\ \A x \in Entities : AttrOf(x) = None
        /\ output = << >>

\* C6: a graph with "*" on a vertex or "min" on an edge is refused before
\* evaluation: execute never finishes normally on it.
C6_WrongKindRefused ==
    (Loaded /\ \E x \in Entities : IsWrongKind(x)) => pc \notin {"returned", "written"}

\* C7: a copy rule whose index is out of range is refused before evaluation:
\* no attr is ever read through it, so its entity never holds a value.
C7_DanglingCopyNeverRead ==
    \A x \in Entities : (Loaded /\ IsDanglingCopy(TextOf(x))) => AttrOf(x) = None

\* How often edge q occurs in an adjacency list.
Occurrences(list, q) == Cardinality({k \in DOMAIN list : list[k] = q})

\* C8: every stored edge has endpoints that are vertices of the graph, and
\* occurs exactly once in out_edges of its source, exactly once in in_edges of
\* its target, and in no other adjacency list.
C8_EdgesWired ==
    \A q \in DOMAIN edges :
        /\ WithId(edges[q].source) # {}
        /\ WithId(edges[q].target) # {}
        /\ \A p \in DOMAIN vertices :
            /\ Occurrences(vertices[p].out_edges, q)
                   = IF vertices[p].id = edges[q].source THEN 1 ELSE 0
            /\ Occurrences(vertices[p].in_edges, q)
                   = IF vertices[p].id = edges[q].target THEN 1 ELSE 0

\* C9: a "min" vertex without incoming edges never makes evaluation fail and
\* never gets a value.
C9_EmptyMinHarmless ==
    \A p \in DOMAIN vertices :
        (Loaded /\ TextOf(<<"v", p>>) = <<"min">> /\ Incoming(p) = {}) =>
            /\ pc # "raised"
            /\ vertices[p].attr = None

\* C10: a "min" vertex with at least one incoming edge has its attr set only
\* when every incoming edge has its attr set, and its attr is then the least
\* of theirs.
C10_MinOfIncoming ==
    \A p \in DOMAIN vertices :
        (TextOf(<<"v", p>>) = <<"min">> /\ Incoming(p) # {} /\ vertices[p].attr # None) =>
            /\ \A q \in Incoming(p) : edges[q].attr # None
            /\ \E q \in Incoming(p) : vertices[p].attr = edges[q].attr
            /\ \A q \in Incoming(p) : vertices[p].attr[1] <= edges[q].attr[1]

\* Scenario B: incoming edges holding 3 and 7, the vertex holding 3.
C10_Witness ==
    \E p \in DOMAIN vertices :
        /\ TextOf(<<"v", p>>) = <<"min">>
        /\ {edges[q].attr : q \in Incoming(p)} = {Some(3), Some(7)}
        /\ vertices[p].attr = Some(3)

RECURSIVE ProductOver(_)
\* The product of the attrs of a set of edges, 1 for the empty set.
ProductOver(Q) ==
    IF Q = {} THEN 1
    ELSE LET q == CHOOSE q \in Q : TRUE
         IN  edges[q].attr[1] * ProductOver(Q \ {q})

\* C11: a "*" edge has its attr set only when its source vertex S and every
\* incoming edge of S have theirs set, and its attr is then S.attr times the
\* product of the incoming edges' attrs (S.attr itself when S has none).
C11_ProductOfSource ==
    \A q \in DOMAIN edges :
        (TextOf(<<"e", q>>) = <<"*">> /\ edges[q].attr # None) =>
            /\ WithId(edges[q].source) # {}
            /\ \A s \in WithId(edges[q].source) :
                /\ vertices[s].attr # None
                /\ \A r \in Incoming(s) : edges[r].attr # None
                /\ edges[q].attr[1] = vertices[s].attr[1] * ProductOver(Incoming(s))

\* Scenario C: the source holds 3, its one incoming edge 7, the "*" edge 21.
C11_Witness ==
    \E q \in DOMAIN edges, s \in DOMAIN vertices :
        /\ TextOf(<<"e", q>>) = <<"*">>
        /\ vertices[s].id = edges[q].source
        /\ vertices[s].attr = Some(3)
        /\ {edges[r].attr : r \in Incoming(s)} = {Some(7)}
        /\ edges[q].attr = Some(21)

\* The entities a copy text refers to: "v k" the vertex of id k - 1, "e k"
\* the edge of id k - 1.
Referenced(t) ==
    IF t[1] = "v"
    THEN {"v"} \X {p \in DOMAIN vertices : vertices[p].id = NumeralValue(t[2]) - 1}
    ELSE {"e"} \X {q \in DOMAIN edges : edges[q].id = NumeralValue(t[2]) - 1}

\* The loops of the running call of execute have visited x at least once.
Evaluated(x) ==
    \/ rounds >= 2
    \/ /\ rounds = 1
       /\ \/ pc \in {"while", "returned", "written"}
          \/ x[1] = "v" /\ pc = "edge_pass"
          \/ x[1] = "v" /\ pc = "vertex_pass" /\ i >= x[2]
          \/ x[1] = "e" /\ pc = "edge_pass" /\ i >= x[2]

\* C12: an entity with an in-range copy rule has its attr set only when the
\* referenced entity has, and then both attrs are equal; an entity with a
\* constant rule holds that constant from its first evaluation on.
C12_CopyAndConstant ==
    \A x \in Entities :
        /\ (IsCopyText(TextOf(x)) /\ ~IsDanglingCopy(TextOf(x)) /\ AttrOf(x) # None) =>
              /\ Referenced(TextOf(x)) # {}
              /\ \A y \in Referenced(TextOf(x)) : AttrOf(y) = AttrOf(x)
        /\ IsConstText(TextOf(x)) =>
              /\ AttrOf(x) # None => AttrOf(x) = Some(NumeralValue(TextOf(x)[1]))
              /\ Evaluated(x) => AttrOf(x) # None

\* Scenario A with the constants 3 and 7: rules "3", "v 1" and edge rule "7".
C12_Witness ==
    /\ pc = "returned"
    /\ NV = 2 /\ NE = 1
    /\ TextOf(<<"v", 1>>) = <<"3">> /\ TextOf(<<"v", 2>>) = <<"v", "1">>
    /\ TextOf(<<"e", 1>>) = <<"7">>
    /\ vertices[1].attr = Some(3) /\ vertices[2].attr = Some(3) /\ edges[1].attr = Some(7)

\* C13: execute stops at a true fixpoint.  A further call of execute on the
\* graph it returned from writes no attr, does not raise, and returns after
\* exactly one round, whether or not entities are left unset.
C13_SecondRunIdle ==
    /\ [][runs >= 2 => (vertices' = vertices /\ edges' = edges)]_vars
    /\ [](runs >= 2 =>
            /\ rounds <= 1
            /\ pc # "raised"
            /\ pc \in {"returned", "written"} => rounds = 1)

\* A second call has returned on a graph with a set and an unset entity.
C13_Witness ==
    /\ runs = 2
    /\ pc = "returned"
    /\ \E x \in Entities : AttrOf(x) = None
    /\ \E x \in Entities : AttrOf(x) # None

\* y is evaluated before x within a round: vertices before edges, and
\* ascending position within each kind.
Earlier(y, x) == (y[1] = "v" /\ x[1] = "e") \/ (y[1] = x[1] /\ y[2] < x[2])

\* The pairs <<x, y>>: x has an in-range copy rule that refers to another entity y.
Copies == {c \in Entities \X Entities :
              /\ IsCopyText(TextOf(c[1]))
              /\ c[2] \in Referenced(TextOf(c[1]))
              /\ c[2] # c[1]}

\* C14: same-pass visibility.  An entity that copies an entity evaluated
\* earlier in the round gets its value in the round the referenced entity gets
\* its own; one that copies an entity evaluated later in the round gets it
\* exactly one round after; and it does get it before execute returns.
C14_SamePassVisibility ==
    \A c \in Copies :
        /\ c[1] \in DOMAIN set_in =>
              /\ c[2] \in DOMAIN set_in
              /\ set_in[c[1]] = set_in[c[2]] + (IF Earlier(c[2], c[1]) THEN 0 ELSE 1)
        /\ (pc \in {"returned", "written"} /\ c[2] \in DOMAIN set_in) => c[1] \in DOMAIN set_in

\* One copier served in the round of its source and one served a round later.
C14_Witness ==
    /\ pc = "returned"
    /\ \E c \in Copies :
          Earlier(c[2], c[1]) /\ c[1] \in DOMAIN set_in /\ set_in[c[1]] = set_in[c[2]]
    /\ \E c \in Copies :
          ~Earlier(c[2], c[1]) /\ c[1] \in DOMAIN set_in /\ set_in[c[1]] = set_in[c[2]] + 1

RECURSIVE Fresh(_)
\* A list of the graph as execute finds it: every attr unset.
Fresh(list) ==
    IF list = << >> THEN << >>
    ELSE Append(Fresh(SubSeq(list, 1, Len(list) - 1)), [list[Len(list)] EXCEPT !.attr = None])

\* The orders in which a round may visit the entities.
Orders ==
    {o \in [1 .. NV + NE -> Entities] : \A a, b \in 1 .. NV + NE : o[a] = o[b] => a = b}

\* The loop body of execute on entity x of the graph g (vs, es, exc), skipped
\* once an exception is on its way out.
EvalOne(g, x) ==
    IF g.exc # "none" \/ (IF x[1] = "v" THEN g.vs[x[2]].attr ELSE g.es[x[2]].attr) # None
    THEN g
    ELSE IF x[1] = "v"
    THEN LET r == ComputeVertexAttr(g.vs, g.es, vertex_map, x[2])
         IN  [vs |-> r.list, es |-> g.es, exc |-> r.exc]
    ELSE LET r == ComputeEdgeAttr(g.vs, g.es, vertex_map, x[2])
         IN  [vs |-> g.vs, es |-> r.list, exc |-> r.exc]

RECURSIVE RoundIn(_, _, _)
\* One round over the first k entities of the order o.
RoundIn(g, o, k) == IF k = 0 THEN g ELSE EvalOne(RoundIn(g, o, k - 1), o[k])

RECURSIVE RunIn(_, _, _)
\* Rounds in the order o until one writes nothing or raises, n at most.
RunIn(g, o, n) ==
    LET h == RoundIn(g, o, NV + NE)
    IN  IF n = 0 \/ h = g \/ h.exc # "none" THEN h ELSE RunIn(h, o, n - 1)

\* The attrs execute ends with when its rounds visit the entities in the order o.
ResultIn(o) ==
    LET g == RunIn([vs |-> Fresh(vertices), es |-> Fresh(edges), exc |-> "none"], o, NV + NE)
    IN  [x \in Entities |-> IF x[1] = "v" THEN g.vs[x[2]].attr ELSE g.es[x[2]].attr]

\* C16: order-independence of the result.  When execute has stopped, the
\* attrs it leaves (which entities are set, and to what) are those that rounds
\* in any other order of the entities would leave.
C16_OrderIndependent ==
    pc \in {"returned", "raised"} =>
        \A o \in Orders : ResultIn(o) = [x \in Entities |-> AttrOf(x)]

\* C17: frame of execute.  No step of execute, from its call to its return
\* or raise, changes anything of the graph but attr fields: the two lists
\* with the attrs left out (ids, sources, targets, in_edges, out_edges, rule
\* texts) and the id-to-vertex map stay as they are.
C17_Frame ==
    [][(pc \in {"loaded", "while", "vertex_pass", "edge_pass"}) =>
          /\ Fresh(vertices') = Fresh(vertices)
          /\ Fresh(edges') = Fresh(edges)
          /\ vertex_map' = vertex_map]_vars

\* execute returned from a graph with wired edges, having set a vertex and an edge.
C17_Witness ==
    /\ pc = "returned"
    /\ \E p \in DOMAIN vertices : vertices[p].attr # None /\ vertices[p].in_edges # << >>
    /\ \E q \in DOMAIN edges : edges[q].attr # None

\* The edges with rule "*" whose source is their own target.
SelfLoopProducts ==
    {q \in DOMAIN edges : TextOf(<<"e", q>>) = <<"*">> /\ edges[q].source = edges[q].target}

\* C18: an edge with rule "*" from a vertex to itself has its attr unset in
\* every state, and once such an edge is in the graph execute still stops.
C18_SelfLoopProduct ==
    /\ [](\A q \in SelfLoopProducts : edges[q].attr = None)
    /\ (SelfLoopProducts # {}) ~> Stopped

\* execute returned with the source vertex of such an edge set and the edge unset.
C18_Witness ==
    /\ pc = "returned"
    /\ \E q \in SelfLoopProducts :
          /\ edges[q].attr = None
          /\ \A p \in WithId(edges[q].source) : vertices[p].attr # None

====
